---- MODULE Spec2Model ----
(***************************************************************************)
(* Model of lost-and-found-backend.py: a table of found items in a SQLite  *)
(* file, five request handlers (get_items, create_item, claim_item,        *)
(* delete_item, get_item) and two entry surfaces that drive them: the HTTP *)
(* listener (uvicorn thread) and the interactive menu (main thread).       *)
(*                                                                         *)
(* Spec     : every handler runs as one step (one request at a time).      *)
(* SpecConc : claim_item and delete_item are split between their SELECT    *)
(*            and their UPDATE/DELETE, so that a handler running on the    *)
(*            HTTP thread interleaves with one running on the menu thread. *)
(***************************************************************************)
EXTENDS Integers, Sequences, FiniteSets, TLC

\* ------------------------------------------------------------------ bounds
MaxCreates == 3
MaxLeaked == 1

\* ids a request may name: those the store can assign (an id is unknown to
\* the store until it is assigned and after its item is deleted)
ReqIds == 1..MaxCreates

Threads == {"http", "menu"}

\* ------------------------------------------------------------------- text
\* Text that is compared or parsed is a sequence of character codes.
Dash == 45
Chr(d) == 48 + d
IsDigit(c) == c \in 48..57
Digit(c) == c - 48

\* "2023-12-31", "2024-01-10" and the impossible "2024-02-30"
Text_2023_12_31 ==
    <<Chr(2), Chr(0), Chr(2), Chr(3), Dash, Chr(1), Chr(2), Dash, Chr(3), Chr(1)>>
Text_2024_01_10 ==
    <<Chr(2), Chr(0), Chr(2), Chr(4), Dash, Chr(0), Chr(1), Dash, Chr(1), Chr(0)>>
Text_2024_02_30 ==
    <<Chr(2), Chr(0), Chr(2), Chr(4), Dash, Chr(0), Chr(2), Dash, Chr(3), Chr(0)>>
DateTexts == {Text_2023_12_31, Text_2024_01_10, Text_2024_02_30}

RECURSIVE TextLessFrom(_, _, _)
TextLessFrom(a, b, i) ==
    IF i > Len(a) THEN i <= Len(b)
    ELSE IF i > Len(b) THEN FALSE
    ELSE IF a[i] = b[i] THEN TextLessFrom(a, b, i + 1)
    ELSE a[i] < b[i]

\* memcmp order of two texts (SQLite BINARY collation)
TextLess(a, b) == TextLessFrom(a, b, 1)

\* ------------------------------------------------------------------ dates
NoDate == [year |-> 0, month |-> 0, day |-> 0]

IsLeap(y) == (y % 4 = 0 /\ y % 100 # 0) \/ y % 400 = 0

DaysInMonth(y, m) ==
    IF m = 2 THEN (IF IsLeap(y) THEN 29 ELSE 28)
    ELSE IF m \in {4, 6, 9, 11} THEN 30 ELSE 31

\* the date field of Item: "YYYY-MM-DD" -> date, NoDate when it is not one
ParseDate(t) ==
    IF /\ Len(t) = 10
       /\ t[5] = Dash /\ t[8] = Dash
       /\ \A i \in {1, 2, 3, 4, 6, 7, 9, 10} : IsDigit(t[i])
    THEN LET y == Digit(t[1]) * 1000 + Digit(t[2]) * 100 + Digit(t[3]) * 10 + Digit(t[4])
             m == Digit(t[6]) * 10 + Digit(t[7])
             d == Digit(t[9]) * 10 + Digit(t[10])
         IN IF y >= 1 /\ m \in 1..12 /\ d >= 1 /\ d <= DaysInMonth(y, m)
            THEN [year |-> y, month |-> m, day |-> d]
            ELSE NoDate
    ELSE NoDate

\* date.isoformat(): what sqlite3 binds for a date, and what JSON carries
isoformat(dt) ==
    <<Chr(dt.year \div 1000), Chr((dt.year \div 100) % 10),
      Chr((dt.year \div 10) % 10), Chr(dt.year % 10), Dash,
      Chr(dt.month \div 10), Chr(dt.month % 10), Dash,
      Chr(dt.day \div 10), Chr(dt.day % 10)>>

\* calendar order
DateLess(a, b) ==
    \/ a.year < b.year
    \/ a.year = b.year /\ a.month < b.month
    \/ a.year = b.year /\ a.month = b.month /\ a.day < b.day

\* --------------------------------------------------------------- requests
\* A request body is a function from the field names it carries to values.
FullBody(d, c) ==
    [name |-> "Wallet", description |-> "black", location |-> "Library",
     date_found |-> d, contact_info |-> "x@y.com", claimed |-> c]

Omit(b, F) == [f \in (DOMAIN b) \ F |-> b[f]]

\* the fields a request may leave out; the first is the spec's Wallet example
OmitSets == {{"description", "claimed"}, {"location", "claimed"},
             {"contact_info", "claimed"}}

\* requests that carry claimed=true, requests without claimed, and requests
\* that leave out a text field
Bodies ==
    {FullBody(d, TRUE) : d \in DateTexts}
        \cup {Omit(FullBody(d, FALSE), {"claimed"}) : d \in DateTexts \ {Text_2024_02_30}}
        \cup {Omit(FullBody(Text_2024_01_10, FALSE), F) : F \in OmitSets}

\* class Item(BaseModel): the fields without a default are required
RequiredFields == {"name", "description", "location", "date_found", "contact_info"}

ItemValid(b) ==
    /\ RequiredFields \subseteq DOMAIN b
    /\ ParseDate(b.date_found) # NoDate

\* Item(**body) for a valid body: date_found parsed, claimed defaulted
Item(b) ==
    [name |-> b.name, description |-> b.description, location |-> b.location,
     date_found |-> ParseDate(b.date_found), contact_info |-> b.contact_info,
     claimed |-> IF "claimed" \in DOMAIN b THEN b.claimed ELSE FALSE]

\* ------------------------------------------------------------------ state
VARIABLES
    items,        \* the rows of table items
    seq,          \* sqlite_sequence: the largest rowid table items ever held
    issued,       \* history: the ids create_item has returned, in order
    open,         \* connections opened and not closed
    menu,         \* show_menu: "running", "crashed" (exception) or "exited"
    pc,           \* per thread: "idle", or the handler it is in the middle of
    local,        \* per thread: item_id and the fetched row of that handler
    resp          \* the response of the operation that finished last

vars == <<items, seq, issued, open, menu, pc, local, resp>>

NoLocal == [id |-> 0, found |-> FALSE]

Init ==
    /\ items = {}
    /\ seq = 0
    /\ issued = <<>>
    /\ open = 0
    /\ menu = "running"
    /\ pc = [t \in Threads |-> "idle"]
    /\ local = [t \in Threads |-> NoLocal]
    /\ resp = [surface |-> "none", op |-> "none", id |-> 0, req |-> [f \in {} |-> 0],
               status |-> 0, body |-> <<>>]

\* ------------------------------------------------------------- statements
Ids(tbl) == {r.id : r \in tbl}

Max(S) == CHOOSE x \in S : \A y \in S : y <= x

\* INTEGER PRIMARY KEY without AUTOINCREMENT: one more than the largest rowid in the table
RowidWithoutAutoincrement(tbl, s) == Max(Ids(tbl) \cup {0}) + 1

\* INTEGER PRIMARY KEY AUTOINCREMENT: one more than the largest rowid ever held
NextRowid(tbl, s) == Max(Ids(tbl) \cup {s}) + 1

\* INSERT INTO items (name, description, location, date_found, contact_info)
InsertRow(tbl, rowid, item) ==
    tbl \cup {[id |-> rowid, name |-> item.name, description |-> item.description,
               location |-> item.location, date_found |-> isoformat(item.date_found),
               contact_info |-> item.contact_info, claimed |-> 0]}

\* SELECT * FROM items WHERE id = ?
SelectById(tbl, id) == {r \in tbl : r.id = id}

FlipClaimed(tbl, id) ==
    {IF r.id = id THEN [r EXCEPT !.claimed = 1 - r.claimed] ELSE r : r \in tbl}

UpdateEveryRow(tbl, id) == {[r EXCEPT !.claimed = 1] : r \in tbl}

\* UPDATE items SET claimed = TRUE WHERE id = ?
UpdateClaimed(tbl, id) ==
    {IF r.id = id THEN [r EXCEPT !.claimed = 1] ELSE r : r \in tbl}

DeleteUpTo(tbl, id) == {r \in tbl : r.id > id}

\* DELETE FROM items WHERE id = ?
DeleteRow(tbl, id) == {r \in tbl : r.id # id}

\* the rows of tbl that ORDER BY date_found (ASC) may put first
Oldest(tbl) == {r \in tbl : \A x \in tbl : ~TextLess(x.date_found, r.date_found)}

RECURSIVE OrderByDateFoundAsc(_)
OrderByDateFoundAsc(tbl) ==
    IF tbl = {} THEN {<<>>}
    ELSE UNION {{<<r>> \o s : s \in OrderByDateFoundAsc(tbl \ {r})} : r \in Oldest(tbl)}

\* the rows of tbl that ORDER BY date_found DESC may put first
Newest(tbl) == {r \in tbl : \A x \in tbl : ~TextLess(r.date_found, x.date_found)}

\* SELECT * FROM items ORDER BY date_found DESC: every order of the rows that
\* the clause allows (rows with equal date_found come in any order)
RECURSIVE OrderByDateFoundDesc(_)
OrderByDateFoundDesc(tbl) ==
    IF tbl = {} THEN {<<>>}
    ELSE UNION {{<<r>> \o s : s \in OrderByDateFoundDesc(tbl \ {r})} : r \in Newest(tbl)}

\* --------------------------------------------------------------- encoding
\* response_model=ItemResponse on a fetched row: date_found is parsed and
\* written back as text, claimed 0/1 becomes a boolean
ResponseFromRow(r) ==
    [id |-> r.id, name |-> r.name, description |-> r.description,
     location |-> r.location, date_found |-> isoformat(ParseDate(r.date_found)),
     contact_info |-> r.contact_info, claimed |-> (r.claimed # 0)]

\* response_model=ItemResponse on {**item.dict(), "id": item_id}
ResponseFromItem(item, item_id) ==
    [id |-> item_id, name |-> item.name, description |-> item.description,
     location |-> item.location, date_found |-> isoformat(item.date_found),
     contact_info |-> item.contact_info, claimed |-> item.claimed]

\* what a surface shows of fetched rows: the HTTP surface encodes them, the
\* menu prints them as fetched
Shown(t, rows) ==
    [i \in DOMAIN rows |-> IF t = "http" THEN ResponseFromRow(rows[i]) ELSE rows[i]]

\* get_item as the HTTP surface answers it, on table tbl
get_item(tbl, id) ==
    LET got == SelectById(tbl, id)
    IN IF got = {} THEN [status |-> 404, body |-> <<>>]
       ELSE [status |-> 200, body |-> <<ResponseFromRow(CHOOSE r \in got : TRUE)>>]

\* --------------------------------------------------------------- handlers
Connect(n) == n + 1
Close(n) == n - 1

NoRequest == [f \in {} |-> 0]

Respond(t, op, id, status, body) ==
    resp' = [surface |-> t, op |-> op, id |-> id, req |-> NoRequest,
             status |-> status, body |-> body]

\* the response to a create also records the request body it answers
RespondCreate(t, b, status, body) ==
    resp' = [surface |-> t, op |-> "create", id |-> 0, req |-> b,
             status |-> status, body |-> body]

\* an exception that leaves a handler is answered by the HTTP surface and
\* ends show_menu
Raise(t) == menu' = IF t = "menu" THEN "crashed" ELSE menu

Ready(t) ==
    /\ pc[t] = "idle"
    /\ t = "menu" => menu = "running"

GetItems(t) ==
    /\ Ready(t)
    /\ \E s \in OrderByDateFoundDesc(items) : Respond(t, "list", 0, 200, Shown(t, s))
    /\ open' = Close(Connect(open))
    /\ UNCHANGED <<items, seq, issued, menu, pc, local>>

\* a body that Item rejects: the handler is not entered
RejectItem(t, b) ==
    /\ Ready(t)
    /\ ~ItemValid(b)
    /\ RespondCreate(t, b, 422, <<>>)
    /\ Raise(t)
    /\ UNCHANGED <<items, seq, issued, open, pc, local>>

CreateItem(t, b) ==
    /\ Ready(t)
    /\ ItemValid(b)
    /\ seq < MaxCreates
    /\ LET item == Item(b)
           item_id == NextRowid(items, seq)
       IN /\ items' = InsertRow(items, item_id, item)
          /\ seq' = item_id
          /\ issued' = Append(issued, item_id)
          /\ RespondCreate(t, b, 200,
                     IF t = "http" THEN <<ResponseFromItem(item, item_id)>> ELSE <<>>)
    /\ open' = Close(Connect(open))
    /\ UNCHANGED <<menu, pc, local>>

GetItem(t, id) ==
    /\ Ready(t)
    /\ LET got == SelectById(items, id)
       IN IF got = {}
          THEN Respond(t, "get", id, 404, <<>>) /\ Raise(t)
          ELSE /\ Respond(t, "get", id, 200, Shown(t, <<CHOOSE r \in got : TRUE>>))
               /\ UNCHANGED menu
    /\ open' = Close(Connect(open))
    /\ UNCHANGED <<items, seq, issued, pc, local>>

\* of conns open connections, those that no running handler holds once
\* thread t has left its handler without closing
Leaked(t, conns) == conns - Cardinality({u \in Threads \ {t} : pc[u] # "idle"})

\* claim_item after its SELECT, on a connection that is open
ClaimTail(t, id, found, conns) ==
    IF ~found
    THEN /\ Leaked(t, conns) <= MaxLeaked
         /\ Respond(t, "claim", id, 404, <<>>)
         /\ Raise(t)
         /\ open' = conns
         /\ UNCHANGED items
    ELSE /\ items' = UpdateClaimed(items, id)
         /\ Respond(t, "claim", id, 200, <<>>)
         /\ open' = Close(conns)
         /\ UNCHANGED menu

\* delete_item after its SELECT, on a connection that is open
DeleteTail(t, id, found, conns) ==
    IF ~found
    THEN /\ Leaked(t, conns) <= MaxLeaked
         /\ Respond(t, "delete", id, 404, <<>>)
         /\ Raise(t)
         /\ open' = conns
         /\ UNCHANGED items
    ELSE /\ items' = DeleteRow(items, id)
         /\ Respond(t, "delete", id, 200, <<>>)
         /\ open' = Close(conns)
         /\ UNCHANGED menu

ClaimItem(t, id) ==
    /\ Ready(t)
    /\ ClaimTail(t, id, SelectById(items, id) # {}, Connect(open))
    /\ UNCHANGED <<seq, issued, pc, local>>

DeleteItem(t, id) ==
    /\ Ready(t)
    /\ DeleteTail(t, id, SelectById(items, id) # {}, Connect(open))
    /\ UNCHANGED <<seq, issued, pc, local>>

\* ------------------------------------------------------------ HTTP surface
HttpGetItems == GetItems("http")
HttpCreateItem == \E b \in Bodies : CreateItem("http", b)
HttpRejectItem == \E b \in Bodies : RejectItem("http", b)
HttpClaimItem == \E id \in ReqIds : ClaimItem("http", id)
HttpDeleteItem == \E id \in ReqIds : DeleteItem("http", id)
HttpGetItem == \E id \in ReqIds : GetItem("http", id)

\* ------------------------------------------------------------ menu surface
\* choice 2 prompts for the five texts and builds Item without claimed
MenuBodies == {Omit(FullBody(d, FALSE), {"claimed"}) : d \in DateTexts}

MenuList == GetItems("menu")
MenuAdd == \E b \in MenuBodies : CreateItem("menu", b)
MenuAddInvalid == \E b \in MenuBodies : RejectItem("menu", b)
MenuDelete == \E id \in ReqIds : DeleteItem("menu", id)
MenuFind == \E id \in ReqIds : GetItem("menu", id)

MenuExit ==
    /\ Ready("menu")
    /\ menu' = "exited"
    /\ Respond("menu", "exit", 0, 200, <<>>)
    /\ UNCHANGED <<items, seq, issued, open, pc, local>>

MenuInvalidOption ==
    /\ Ready("menu")
    /\ Respond("menu", "invalid", 0, 200, <<>>)
    /\ UNCHANGED <<items, seq, issued, open, menu, pc, local>>

Next ==
    \/ HttpGetItems
    \/ HttpCreateItem
    \/ HttpRejectItem
    \/ HttpClaimItem
    \/ HttpDeleteItem
    \/ HttpGetItem
    \/ MenuList
    \/ MenuAdd
    \/ MenuAddInvalid
    \/ MenuDelete
    \/ MenuFind
    \/ MenuExit
    \/ MenuInvalidOption

Spec == Init /\ [][Next]_vars

\* ------------------------------------------- two threads, statement by statement
\* claim_item up to fetchone(): the connection is open, the row is fetched
ClaimSelect(t, id) ==
    /\ Ready(t)
    /\ open' = Connect(open)
    /\ pc' = [pc EXCEPT ![t] = "claim"]
    /\ local' = [local EXCEPT ![t] = [id |-> id, found |-> SelectById(items, id) # {}]]
    /\ UNCHANGED <<items, seq, issued, menu, resp>>

ClaimFinish(t) ==
    /\ pc[t] = "claim"
    /\ ClaimTail(t, local[t].id, local[t].found, open)
    /\ pc' = [pc EXCEPT ![t] = "idle"]
    /\ local' = [local EXCEPT ![t] = NoLocal]
    /\ UNCHANGED <<seq, issued>>

DeleteSelect(t, id) ==
    /\ Ready(t)
    /\ open' = Connect(open)
    /\ pc' = [pc EXCEPT ![t] = "delete"]
    /\ local' = [local EXCEPT ![t] = [id |-> id, found |-> SelectById(items, id) # {}]]
    /\ UNCHANGED <<items, seq, issued, menu, resp>>

DeleteFinish(t) ==
    /\ pc[t] = "delete"
    /\ DeleteTail(t, local[t].id, local[t].found, open)
    /\ pc' = [pc EXCEPT ![t] = "idle"]
    /\ local' = [local EXCEPT ![t] = NoLocal]
    /\ UNCHANGED <<seq, issued>>

HttpClaimSelect == \E id \in ReqIds : ClaimSelect("http", id)
HttpClaimFinish == ClaimFinish("http")
HttpDeleteSelect == \E id \in ReqIds : DeleteSelect("http", id)
HttpDeleteFinish == DeleteFinish("http")
MenuDeleteSelect == \E id \in ReqIds : DeleteSelect("menu", id)
MenuDeleteFinish == DeleteFinish("menu")

NextConc ==
    \/ HttpGetItems
    \/ HttpCreateItem
    \/ HttpRejectItem
    \/ HttpClaimSelect
    \/ HttpClaimFinish
    \/ HttpDeleteSelect
    \/ HttpDeleteFinish
    \/ HttpGetItem
    \/ MenuList
    \/ MenuAdd
    \/ MenuAddInvalid
    \/ MenuDeleteSelect
    \/ MenuDeleteFinish
    \/ MenuFind
    \/ MenuExit
    \/ MenuInvalidOption

SpecConc == Init /\ [][NextConc]_vars

\* ================================================================== claims
Range(f) == {f[i] : i \in DOMAIN f}

IsCreated(r) == r.op = "create" /\ r.status = 200 /\ r.surface = "http"

\* C1: the record create returns is the stored record: a get of the returned
\* id right after the create returns the same name, description, location,
\* date_found, contact_info and id, and claimed is false in both, whatever
\* the accepted input carried.
C1_CreateReturnsStoredRecord ==
    IsCreated(resp) =>
        LET created == resp.body[1]
            got == get_item(items, created.id)
        IN /\ got.status = 200
           /\ got.body[1] = created
           /\ created.claimed = FALSE
           /\ got.body[1].claimed = FALSE

\* C2: no two stored items have the same id, the item stored under an id stays
\* the same item while it is stored, and create never returns an id that an
\* earlier create returned, deleted or not.
C2_Unique ==
    /\ \A r1, r2 \in items : r1.id = r2.id => r1 = r2
    /\ \A i, j \in DOMAIN issued : i # j => issued[i] # issued[j]

C2_Stable ==
    \A r1 \in items : \A r2 \in items' :
        r1.id = r2.id => [r2 EXCEPT !.claimed = r1.claimed] = r1

C2_IdsUniqueAndStable == [] C2_Unique /\ [][C2_Stable]_vars

\* an item was deleted, and a later create got an id that is stored
C2_Witness ==
    \E i, j \in DOMAIN issued :
        i < j /\ issued[i] \notin Ids(items) /\ issued[j] \in Ids(items)

ShowsClaimed(tbl, id) ==
    LET got == get_item(tbl, id) IN got.status = 200 /\ got.body[1].claimed = TRUE

\* C3: claimed is monotonic: a new item has claimed false; an id that a get
\* shows claimed is, after every step, shown claimed unless it is no longer
\* stored, and an id that is no longer stored is never stored again; claiming
\* a claimed item leaves the store as it was.
C3_Assigned == Ids(items) \subseteq Range(issued)

C3_Step ==
    /\ items' # items =>
          /\ \A r \in items' \ items :
                r.id \notin Ids(items) => ~ShowsClaimed(items', r.id)
          /\ \A id \in Ids(items') \cap Ids(items) :
                ShowsClaimed(items, id) => ShowsClaimed(items', id)
          /\ Ids(items') \cap Range(issued) \subseteq Ids(items)
    /\ (resp'.op = "claim" /\ ShowsClaimed(items, resp'.id)) =>
          (items' = items /\ seq' = seq)

C3_ClaimedMonotonic == [] C3_Assigned /\ [][C3_Step]_vars

\* a claim has answered for an item that a get shows claimed, another item is
\* not claimed and a third was deleted
C3_Witness ==
    /\ resp.op = "claim" /\ resp.status = 200 /\ ShowsClaimed(items, resp.id)
    /\ \E r \in items : ~ShowsClaimed(items, r.id)
    /\ \E id \in Range(issued) : get_item(items, id).status = 404

\* C4: claim of a stored id confirms, a get then shows claimed true, every
\* other field of the item and every other item are as before; claim of an
\* id that is not stored answers 404 and leaves the store as it was.
C4_Answer ==
    (resp.op = "claim" /\ resp.status = 200) => ShowsClaimed(items, resp.id)

C4_Step ==
    resp'.op = "claim" =>
        IF resp'.id \in Ids(items)
        THEN /\ resp'.status = 200
             /\ Ids(items') = Ids(items)
             /\ Cardinality(items') = Cardinality(items)
             /\ \A r \in items :
                   IF r.id = resp'.id
                   THEN [r EXCEPT !.claimed = 1] \in items'
                   ELSE r \in items'
             /\ seq' = seq
        ELSE /\ resp'.status = 404
             /\ items' = items
             /\ seq' = seq

C4_ClaimContract == [] C4_Answer /\ [][C4_Step]_vars

\* a claim has confirmed while another stored item is not claimed
C4_Witness ==
    /\ resp.op = "claim" /\ resp.status = 200
    /\ \E r \in items : r.id # resp.id /\ r.claimed = 0

\* C5: delete of a stored id confirms and removes exactly that item: get of
\* it is not found, it is not stored again, so that no listing holds it, and
\* the other items are as before; delete of an id that is not stored, a
\* deleted one included, answers 404 and leaves the store as it was.
C5_Listed ==
    resp.op = "list" => \A i \in DOMAIN resp.body : resp.body[i].id \in Ids(items)

C5_Step ==
    /\ resp'.op = "delete" =>
          IF resp'.id \in Ids(items)
          THEN /\ resp'.status = 200
               /\ get_item(items', resp'.id).status = 404
               /\ \A r \in items : r.id # resp'.id => r \in items'
               /\ items' \subseteq items
               /\ seq' = seq
          ELSE /\ resp'.status = 404
               /\ items' = items
               /\ seq' = seq
    /\ items' # items => Ids(items') \cap Range(issued) \subseteq Ids(items)

C5_DeleteContract == [] C5_Listed /\ [][C5_Step]_vars

\* a delete of an id that was deleted before has answered 404, other items stored
C5_Witness ==
    /\ resp.op = "delete" /\ resp.status = 404
    /\ resp.id \in Range(issued)
    /\ items # {}

\* C6: a get or a delete of an id that is not stored is answered NotFound on
\* both surfaces and the menu goes on serving choices.
C6_UnknownIdNeverCrashes ==
    (resp.op \in {"get", "delete"} /\ resp.status = 404) =>
        (resp.surface = "menu" => menu = "running")

\* C7: a listing holds exactly the stored items, each once, ordered by
\* date_found descending; it is empty when the store is; it changes nothing.
C7_Listing ==
    resp.op = "list" =>
        /\ resp.status = 200
        /\ Len(resp.body) = Cardinality(items)
        /\ Range(resp.body) =
              {IF resp.surface = "http" THEN ResponseFromRow(r) ELSE r : r \in items}
        /\ \A i \in 1..(Len(resp.body) - 1) :
              ~DateLess(ParseDate(resp.body[i].date_found),
                        ParseDate(resp.body[i + 1].date_found))
        /\ items = {} => resp.body = <<>>

C7_Step == resp'.op = "list" => (items' = items /\ seq' = seq)

C7_ListOrdered == [] C7_Listing /\ [][C7_Step]_vars

\* a listing of three items, two of them found on the same day
C7_Witness ==
    /\ resp.op = "list" /\ Len(resp.body) >= 3
    /\ \E i, j \in DOMAIN resp.body :
          i # j /\ resp.body[i].date_found = resp.body[j].date_found
    /\ \E i, j \in DOMAIN resp.body :
          resp.body[i].date_found # resp.body[j].date_found

\* C8: a create request that has a name and a date_found and leaves out
\* description, location or contact_info is accepted and answered with the
\* stored item, claimed false; on an empty store it gets id 1.
C8_OptionalFields ==
    (/\ resp.op = "create"
     /\ {"name", "date_found"} \subseteq DOMAIN resp.req
     /\ ParseDate(resp.req.date_found) # NoDate
     /\ {"description", "location", "contact_info"} \ DOMAIN resp.req # {}) =>
        /\ resp.status = 200
        /\ Len(resp.body) = 1
        /\ resp.body[1].claimed = FALSE
        /\ get_item(items, resp.body[1].id).status = 200
        /\ Len(issued) = 1 => resp.body[1].id = 1

\* C9: the existence check and the write of a claim or a delete are not
\* separated by the write of another operation: a claim that has confirmed
\* leaves the item stored and claimed, and a handler that has found its row
\* still has it when it writes.
C9_HandlersAtomic ==
    /\ (resp.op = "claim" /\ resp.status = 200) =>
          \E r \in items : r.id = resp.id /\ r.claimed = 1
    /\ \A t \in Threads :
          (pc[t] # "idle" /\ local[t].found) => local[t].id \in Ids(items)

\* C10: when no operation is running, no connection is open.
C10_ConnectionsClosed ==
    (\A t \in Threads : pc[t] = "idle") => open = 0

====
